---- MODULE Spec2Model ----
(***************************************************************************)
(* Home Assistant "ha_users" integration: the component setup hook         *)
(* (custom_components/ha_users/__init__.py) and the sensor platform        *)
(* (sensor.py): UserCoordinator polls hass.auth for the accounts, and one  *)
(* UserSensor per account of the first poll mirrors its record.            *)
(*                                                                         *)
(* Python strings are modelled as sequences of one-character strings, so   *)
(* that slicing, lower() and replace() are computed and not assumed.       *)
(* Optional values (a name that may be None) are records                   *)
(* [present, text].                                                        *)
(***************************************************************************)
EXTENDS Integers, Sequences, FiniteSets, TLC

VARIABLES
    hassData,      \* hass.data: a function from the keys present to the set of keys of the dict stored there
    loadCalls,     \* the calls made to discovery.async_load_platform, in order
    setupCalls,    \* how many times the host has run async_setup
    lastConfig,    \* the config object of the latest async_setup call
    setupReturn,   \* what the latest async_setup call returned ("none" before any call)
    platform,      \* async_setup_platform: "none" (not run), "ready" (returned), "failed" (raised)
    platformError, \* the exception async_setup_platform re-raised to the host ("none" if none)
    coordinator,   \* the UserCoordinator: created, hasData (data is not None), data, last_update_success
    pc,            \* the refresh task: "idle", or "fetching" while suspended in async_get_users
    lastFetch,     \* the account list the latest successful async_get_users returned
    firstPoll,     \* coordinator.data as async_setup_platform iterated it
    entities,      \* the entities registered through async_add_entities, in order
    notified,      \* TRUE when the entities' _handle_coordinator_update has run since the latest refresh began or failed
    callbackError  \* TRUE once an entity callback has raised

vars == <<hassData, loadCalls, setupCalls, lastConfig, setupReturn, platform,
          platformError, coordinator, pc, lastFetch, firstPoll, entities,
          notified, callbackError>>

-----------------------------------------------------------------------------
(* Bounds of the model *)

\* the most accounts the host's auth store returns in one poll
MaxUsers == 2

\* the most times the host runs async_setup
MaxSetupCalls == 2

-----------------------------------------------------------------------------
(* Python string operations *)

Min(a, b) == IF a <= b THEN a ELSE b

\* the slice length of user['id'][:8]
IdPrefixLen == 8

UpperToLower ==
    [c \in {"A", "B", "C", "D", "E", "F", "G", "H", "I", "J", "K", "L", "M",
            "N", "O", "P", "Q", "R", "S", "T", "U", "V", "W", "X", "Y", "Z"} |->
        CASE c = "A" -> "a" [] c = "B" -> "b" [] c = "C" -> "c" [] c = "D" -> "d"
          [] c = "E" -> "e" [] c = "F" -> "f" [] c = "G" -> "g" [] c = "H" -> "h"
          [] c = "I" -> "i" [] c = "J" -> "j" [] c = "K" -> "k" [] c = "L" -> "l"
          [] c = "M" -> "m" [] c = "N" -> "n" [] c = "O" -> "o" [] c = "P" -> "p"
          [] c = "Q" -> "q" [] c = "R" -> "r" [] c = "S" -> "s" [] c = "T" -> "t"
          [] c = "U" -> "u" [] c = "V" -> "v" [] c = "W" -> "w" [] c = "X" -> "x"
          [] c = "Y" -> "y" [] c = "Z" -> "z"]

\* str.lower()
StrLower(s) ==
    [i \in 1..Len(s) |-> IF s[i] \in DOMAIN UpperToLower THEN UpperToLower[s[i]] ELSE s[i]]

\* str.replace(old, new) for a one-character old
StrReplace(s, old, new) ==
    [i \in 1..Len(s) |-> IF s[i] = old THEN new ELSE s[i]]

\* s[:n]
StrPrefix(s, n) == SubSeq(s, 1, Min(n, Len(s)))

\* the truth value Python gives an optional string: None and "" are falsy
Truthy(name) == name.present /\ name.text # <<>>

None == [present |-> FALSE, text |-> <<>>]
Some(s) == [present |-> TRUE, text |-> s]

-----------------------------------------------------------------------------
(* The host's accounts (hass.auth): the inputs of a poll *)

IdA == <<"a", "b", "c", "1", "2", "3", "4", "5">>
IdB == <<"d", "e", "a", "d", "b", "e", "e", "f", "x", "y", "z">>
IdC == <<"D", "e", " ", "A", "d", "b", "e", "e", "f", "9">>

Group(gid) == [id |-> gid]

\* A host User object. has_local_only / has_credentials say whether the
\* attribute exists on the object (hasattr), which depends on the host version.
User(id, name, owner, active, sysgen, groups, hasLocal, localOnly, hasCreds, creds) ==
    [id |-> id, name |-> name, is_owner |-> owner, is_active |-> active,
     system_generated |-> sysgen, groups |-> groups,
     has_local_only |-> hasLocal, local_only |-> localOnly,
     has_credentials |-> hasCreds, credentials |-> creds]

Accounts ==
    { User(IdA, Some(<<"A", "l", "i", "c", "e">>), TRUE, TRUE, FALSE,
           <<Group("g1")>>, FALSE, FALSE, FALSE, <<>>),
      User(IdA, Some(<<"A", "l", " ", "I", "c", "e">>), FALSE, TRUE, FALSE,
           <<Group("g1"), Group("g2")>>, TRUE, TRUE, TRUE, <<"c1">>),
      User(IdB, Some(<<>>), FALSE, TRUE, TRUE,
           <<>>, TRUE, FALSE, TRUE, <<>>),
      User(IdB, Some(<<"a", "l", "i", "c", "e">>), FALSE, FALSE, FALSE,
           <<Group("g2")>>, FALSE, FALSE, TRUE, <<"c1", "c2">>),
      User(IdC, None, FALSE, FALSE, TRUE,
           <<Group("g1")>>, TRUE, TRUE, FALSE, <<>>) }

\* the auth store keeps the accounts in the order of their creation
CreationOrder == <<IdA, IdB, IdC>>

Rank(id) == CHOOSE k \in 1..Len(CreationOrder) : CreationOrder[k] = id

\* the account lists async_get_users can return: ids are unique within a list,
\* and the accounts come in the order of their creation
UserLists ==
    UNION { { l \in [1..n -> Accounts] :
                \A i, j \in 1..n : i < j => Rank(l[i].id) < Rank(l[j].id) } :
            n \in 0..MaxUsers }

-----------------------------------------------------------------------------
(* UserCoordinator._async_update_data: the mapping of accounts to records *)

\* [g.id for g in user.groups]
GroupIds(groups) == [i \in 1..Len(groups) |-> groups[i].id]

\* the body of the loop: one User object to one dict
UserDict(user) ==
    [id |-> user.id,
     name |-> user.name,
     is_owner |-> user.is_owner,
     is_active |-> user.is_active,
     system_generated |-> user.system_generated,
     group_ids |-> GroupIds(user.groups),
     local_only |-> IF user.has_local_only THEN user.local_only ELSE FALSE,
     has_credentials |-> IF user.has_credentials THEN Len(user.credentials) > 0 ELSE FALSE]

RECURSIVE BuildUserList(_, _)
\* the loop: user_list.append(user_dict) for each user, in order
BuildUserList(users, user_list) ==
    IF users = <<>> THEN user_list
    ELSE BuildUserList(Tail(users), Append(user_list, UserDict(Head(users))))

\* as AsyncUpdateData, with the return inside the loop: the list is returned
\* after the first append
AsyncUpdateDataReturnInLoop(users) ==
    BuildUserList(SubSeq(users, 1, Min(1, Len(users))), <<>>)

\* what _async_update_data returns for the accounts the host gave it
AsyncUpdateData(users) == BuildUserList(users, <<>>)

-----------------------------------------------------------------------------
(* UserSensor *)

HaUserPrefix == <<"h", "a", "_", "u", "s", "e", "r", "_">>

\* as Username, without the [:8] slice of the id
UsernameWholeId(user) ==
    IF Truthy(user.name) THEN user.name.text
    ELSE <<"u", "s", "e", "r", "_">> \o user.id

\* username = user['name'] or f"user_{user['id'][:8]}"
Username(user) ==
    IF Truthy(user.name) THEN user.name.text
    ELSE <<"u", "s", "e", "r", "_">> \o StrPrefix(user.id, IdPrefixLen)

\* safe_name = username.lower().replace(' ', '_')
SafeName(user) == StrReplace(StrLower(Username(user)), " ", "_")

\* friendly_name = user['name'] or f"User {user['id'][:8]}"
FriendlyName(user) ==
    IF Truthy(user.name) THEN user.name.text
    ELSE <<"U", "s", "e", "r", " ">> \o StrPrefix(user.id, IdPrefixLen)

\* as UpdateFromUser, deriving the identifier again from the record
UpdateFromUserRenaming(self, user) ==
    [self EXCEPT
        !.unique_id = HaUserPrefix \o SafeName(user),
        !.object_id = HaUserPrefix \o SafeName(user),
        !.name = HaUserPrefix \o SafeName(user),
        !.native_value = FriendlyName(user),
        !.extra_state_attributes =
            [user_id |-> user.id,
             is_owner |-> user.is_owner,
             is_active |-> user.is_active,
             local_only |-> user.local_only,
             system_generated |-> user.system_generated,
             group_ids |-> user.group_ids,
             has_credentials |-> user.has_credentials]]

\* _update_from_user: the displayed value and the seven attributes
UpdateFromUser(self, user) ==
    [self EXCEPT
        !.native_value = FriendlyName(user),
        !.extra_state_attributes =
            [user_id |-> user.id,
             is_owner |-> user.is_owner,
             is_active |-> user.is_active,
             local_only |-> user.local_only,
             system_generated |-> user.system_generated,
             group_ids |-> user.group_ids,
             has_credentials |-> user.has_credentials]]

NoAttributes ==
    [user_id |-> <<>>, is_owner |-> FALSE, is_active |-> FALSE, local_only |-> FALSE,
     system_generated |-> FALSE, group_ids |-> <<>>, has_credentials |-> FALSE]

\* UserSensor.__init__
NewUserSensor(user) ==
    UpdateFromUser(
        [user_id |-> user.id,
         unique_id |-> HaUserPrefix \o SafeName(user),
         object_id |-> HaUserPrefix \o SafeName(user),
         name |-> HaUserPrefix \o SafeName(user),
         native_value |-> <<>>,
         extra_state_attributes |-> NoAttributes],
        user)

RECURSIVE FindUserFrom(_, _, _)
\* the linear scan of _find_user from position i: the first record with the
\* id, as <<record>>, or <<>> for None
FindUserFrom(data, user_id, i) ==
    IF i > Len(data) THEN <<>>
    ELSE IF data[i].id = user_id THEN <<data[i]>>
    ELSE FindUserFrom(data, user_id, i + 1)

\* as FindUser, returning the first record without comparing the id
FindUserFirst(data, user_id) ==
    IF data = <<>> THEN <<>> ELSE <<data[1]>>

FindUser(data, user_id) == FindUserFrom(data, user_id, 1)

\* as HandleCoordinatorUpdate, blanking an entity whose account is gone
HandleCoordinatorUpdateBlanking(self, data) ==
    IF FindUser(data, self.user_id) # <<>>
    THEN UpdateFromUser(self, FindUser(data, self.user_id)[1])
    ELSE [self EXCEPT !.native_value = <<>>, !.extra_state_attributes = NoAttributes]

\* _handle_coordinator_update on one entity, reading the coordinator's data
HandleCoordinatorUpdate(self, data) ==
    IF FindUser(data, self.user_id) # <<>>
    THEN UpdateFromUser(self, FindUser(data, self.user_id)[1])
    ELSE self

-----------------------------------------------------------------------------
(* The component: async_setup *)

\* DOMAIN, imported from .const: the key of the integration in hass.data and
\* in the configuration. Nothing below depends on its value.
Domain == "ha_users"

\* the configuration objects the host passes to async_setup
Configs == { {"homeassistant"}, {"homeassistant", Domain} }

\* as SetDefault, assigning: hass.data[key] = {}
SetDefaultOverwriting(data, key) ==
    [k \in (DOMAIN data) \cup {key} |-> IF k = key THEN {} ELSE data[k]]

\* hass.data.setdefault(key, {}): an existing slot is kept as it is
SetDefault(data, key) ==
    IF key \in DOMAIN data THEN data ELSE data @@ (key :> {})

\* one call of discovery.async_load_platform(hass, Platform.SENSOR, DOMAIN, {}, config)
LoadPlatformCall == [component |-> "sensor", platform |-> Domain, discovered |-> {}]

async_setup(config) ==
    /\ setupCalls < MaxSetupCalls
    /\ setupCalls' = setupCalls + 1
    /\ lastConfig' = config
    /\ hassData' = SetDefault(hassData, Domain)
    /\ loadCalls' = IF Domain \notin config THEN loadCalls
                    ELSE Append(loadCalls, LoadPlatformCall)
    /\ setupReturn' = "True"
    /\ UNCHANGED <<platform, platformError, coordinator, pc, lastFetch, firstPoll,
                   entities, notified, callbackError>>

-----------------------------------------------------------------------------
(* The sensor platform: async_setup_platform *)

NoCoordinator ==
    [created |-> FALSE, hasData |-> FALSE, data |-> <<>>, last_update_success |-> TRUE]

\* the ways the try block can go: it runs through, or one of its steps raises
SetupOutcomes ==
    {"ok", "coordinator_raises", "refresh_raises", "refresh_leaves_none", "entity_raises"}

\* the coordinator after UserCoordinator(hass) and the first async_refresh().
\* The host either lets the fetch error out of async_refresh or records the
\* failure and leaves data None.
FirstRefresh(outcome, users) ==
    CASE outcome = "coordinator_raises" -> NoCoordinator
      [] outcome \in {"refresh_raises", "refresh_leaves_none"} ->
            [created |-> TRUE, hasData |-> FALSE, data |-> <<>>,
             last_update_success |-> FALSE]
      [] OTHER ->
            [created |-> TRUE, hasData |-> TRUE, data |-> AsyncUpdateData(users),
             last_update_success |-> TRUE]

\* hass.data[DOMAIN]["coordinator"] = coordinator
StoreCoordinator(data) ==
    [data EXCEPT ![Domain] = @ \cup {"coordinator"}]

\* as BuildEntities, skipping the accounts that are not active
BuildEntitiesActiveOnly(data, n) ==
    LET built == [i \in 1..n |-> NewUserSensor(data[i])]
    IN SelectSeq(built, LAMBDA e : e.extra_state_attributes.is_active)

\* the loop that appends UserSensor(coordinator, user) for the first n records
BuildEntities(data, n) == [i \in 1..n |-> NewUserSensor(data[i])]

\* the step of the try block that raised, "none" if it ran through
RaisedAt(outcome, coord) ==
    CASE outcome = "coordinator_raises" -> "coordinator"
      [] outcome = "refresh_raises" -> "refresh"
      [] Domain \notin DOMAIN hassData -> "store"
      [] ~coord.hasData -> "iterate"
      [] outcome = "entity_raises" /\ coord.data # <<>> -> "entity"
      [] OTHER -> "none"

\* except Exception: log and raise
Reraise(raisedAt) == IF raisedAt = "none" THEN "ready" ELSE "failed"

\* as AddEntities, with async_add_entities called for what was built so far
\* when the block is left, whether or not it raised
AddEntitiesAsBuilt(registered, built, raisedAt) == registered \o built

\* async_add_entities(entities, update_before_add=False) is the last statement of
\* the try block: it runs only if nothing before it raised
AddEntities(registered, built, raisedAt) ==
    IF raisedAt = "none" THEN registered \o built ELSE registered

async_setup_platform(outcome, users, failAt) ==
    /\ platform = "none"
    /\ loadCalls # <<>>
    /\ LET coord == FirstRefresh(outcome, users)
           raisedAt == RaisedAt(outcome, coord)
           stored == raisedAt \in {"iterate", "entity", "none"}
           \* how many entities were built before one raised
           nBuilt == IF raisedAt = "entity" THEN failAt - 1
                     ELSE IF raisedAt = "none" THEN Len(coord.data) ELSE 0
       IN /\ failAt \in 1..(IF outcome = "entity_raises" /\ Len(coord.data) > 0
                             THEN Len(coord.data) ELSE 1)
          /\ coordinator' = coord
          /\ hassData' = IF stored THEN StoreCoordinator(hassData) ELSE hassData
          /\ lastFetch' = IF coord.hasData THEN users ELSE lastFetch
          /\ firstPoll' = IF raisedAt = "none" THEN coord.data ELSE firstPoll
          /\ entities' = AddEntities(entities, BuildEntities(coord.data, nBuilt), raisedAt)
          /\ platformError' = raisedAt
          /\ platform' = Reraise(raisedAt)
    /\ UNCHANGED <<loadCalls, setupCalls, lastConfig, setupReturn, pc, notified,
                   callbackError>>

-----------------------------------------------------------------------------
(* Steady state: the host's periodic refresh and the entity callbacks *)

\* the host runs _handle_coordinator_update of every registered entity
NotifyListeners(ents, data) ==
    [i \in 1..Len(ents) |-> HandleCoordinatorUpdate(ents[i], data)]

\* as DataAfterFailedFetch, with the error caught and an empty list returned
DataAfterSwallowedError(cached) == <<>>

\* the cached data after a poll in which async_get_users raised:
\* _async_update_data returns nothing, the exception leaves it
DataAfterFailedFetch(cached) == cached

\* the host starts a refresh: _async_update_data runs up to the await
RefreshBegin ==
    /\ platform = "ready"
    /\ pc = "idle"
    /\ pc' = "fetching"
    /\ notified' = FALSE
    /\ UNCHANGED <<hassData, loadCalls, setupCalls, lastConfig, setupReturn, platform,
                   platformError, coordinator, lastFetch, firstPoll, entities,
                   callbackError>>

\* async_get_users returns: the list is built and becomes coordinator.data,
\* and the host notifies the entities before anything else runs
RefreshSucceed(users) ==
    /\ pc = "fetching"
    /\ pc' = "idle"
    /\ coordinator' = [coordinator EXCEPT !.hasData = TRUE,
                                           !.data = AsyncUpdateData(users),
                                           !.last_update_success = TRUE]
    /\ lastFetch' = users
    /\ entities' = NotifyListeners(entities, coordinator'.data)
    /\ notified' = TRUE
    /\ UNCHANGED <<hassData, loadCalls, setupCalls, lastConfig, setupReturn, platform,
                   platformError, firstPoll, callbackError>>

\* async_get_users raises: the refresh fails as a whole
RefreshFail ==
    /\ pc = "fetching"
    /\ pc' = "idle"
    /\ coordinator' = [coordinator EXCEPT !.data = DataAfterFailedFetch(@),
                                           !.last_update_success = FALSE]
    /\ notified' = FALSE
    /\ UNCHANGED <<hassData, loadCalls, setupCalls, lastConfig, setupReturn, platform,
                   platformError, lastFetch, firstPoll, entities, callbackError>>

\* the host runs the listeners: _handle_coordinator_update of every entity.
\* It does so after a failed refresh too, and it may while a fetch is in flight.
UpdateListeners ==
    /\ platform = "ready"
    /\ entities' = NotifyListeners(entities, coordinator.data)
    /\ notified' = TRUE
    /\ callbackError' = (callbackError \/ (entities # <<>> /\ ~coordinator.hasData))
    /\ UNCHANGED <<hassData, loadCalls, setupCalls, lastConfig, setupReturn, platform,
                   platformError, coordinator, pc, lastFetch, firstPoll>>

-----------------------------------------------------------------------------

Init ==
    /\ hassData = <<>>
    /\ loadCalls = <<>>
    /\ setupCalls = 0
    /\ lastConfig = {}
    /\ setupReturn = "none"
    /\ platform = "none"
    /\ platformError = "none"
    /\ coordinator = NoCoordinator
    /\ pc = "idle"
    /\ lastFetch = <<>>
    /\ firstPoll = <<>>
    /\ entities = <<>>
    /\ notified = FALSE
    /\ callbackError = FALSE

Next ==
    \/ \E config \in Configs : async_setup(config)
    \/ \E outcome \in SetupOutcomes, users \in UserLists, failAt \in 1..MaxUsers :
          async_setup_platform(outcome, users, failAt)
    \/ RefreshBegin
    \/ \E users \in UserLists : RefreshSucceed(users)
    \/ RefreshFail
    \/ UpdateListeners

Spec == Init /\ [][Next]_vars

-----------------------------------------------------------------------------
(* Properties *)

\* the entity i's account is in the record list
HasRecord(data, id) == \E k \in 1..Len(data) : data[k].id = id

\* Python's falsy name: None or ""
NameMissing(name) == ~name.present \/ Len(name.text) = 0

\* the displayed value a record calls for
Displayed(r) ==
    IF NameMissing(r.name)
    THEN <<"U", "s", "e", "r", " ">> \o SubSeq(r.id, 1, Min(8, Len(r.id)))
    ELSE r.name.text

\* the seven attributes a record calls for
Attributes(r) ==
    [user_id |-> r.id, is_owner |-> r.is_owner, is_active |-> r.is_active,
     local_only |-> r.local_only, system_generated |-> r.system_generated,
     group_ids |-> r.group_ids, has_credentials |-> r.has_credentials]

\* C1: in a steady-state refresh cycle that failed, the cached snapshot stays
\* what it was and no entity's value or attributes change, whether or not the
\* entities are notified in that cycle.
C1_FailedRefreshKeepsSnapshot ==
    [][(platform = "ready" /\ ~coordinator'.last_update_success)
         => /\ coordinator'.hasData = coordinator.hasData
            /\ coordinator'.data = coordinator.data
            /\ entities' = entities]_vars

\* a failed cycle in which the entities were notified, after the snapshot had
\* moved on from the first poll
C1_Witness ==
    /\ platform = "ready"
    /\ ~coordinator.last_update_success
    /\ notified
    /\ entities # <<>>
    /\ coordinator.data # firstPoll

\* C2: after a successful refresh and its notification, every entity whose
\* account id is in the snapshot shows the value and the seven attributes of
\* the record that carries its id.
C2_EntitiesShowOwnRecord ==
    (platform = "ready" /\ coordinator.last_update_success /\ notified)
        => \A i \in 1..Len(entities) : \A k \in 1..Len(coordinator.data) :
              coordinator.data[k].id = entities[i].user_id
                 => /\ entities[i].native_value = Displayed(coordinator.data[k])
                    /\ entities[i].extra_state_attributes = Attributes(coordinator.data[k])

\* an entity whose record changed since setup and sits at another position
C2_Witness ==
    /\ platform = "ready" /\ coordinator.last_update_success /\ notified
    /\ \E i \in 1..Len(entities) : \E k \in 1..Len(coordinator.data) :
          /\ k # i
          /\ coordinator.data[k].id = entities[i].user_id
          /\ coordinator.data[k] # firstPoll[i]
          /\ coordinator.data[1].id # entities[i].user_id

\* C3: when the handlers run while an entity's account id is absent from the
\* snapshot they read, that entity's value and attributes are unchanged, no
\* entity is removed and no callback raises.
C3_StaleEntityUnchanged ==
    [][(platform = "ready" /\ notified')
         => /\ ~callbackError'
            /\ Len(entities') = Len(entities)
            /\ \A i \in 1..Len(entities) :
                  ~HasRecord(coordinator'.data, entities[i].user_id)
                     => entities'[i] = entities[i]]_vars

\* the handlers have run with an entity's account deleted
C3_Witness ==
    /\ platform = "ready" /\ notified
    /\ \E i \in 1..Len(entities) : ~HasRecord(coordinator.data, entities[i].user_id)

\* C4: the entities are those built at platform setup, one per record of the
\* first poll and in its order; refreshes add none and remove none, and a
\* platform that is not set up has none.
C4_EntitySetFixedAtSetup ==
    /\ platform = "ready"
          => /\ Len(entities) = Len(firstPoll)
             /\ \A i \in 1..Len(entities) : entities[i].user_id = firstPoll[i].id
    /\ platform # "ready" => entities = <<>>

\* after a refresh, one account of the first poll is gone, a new one is there
C4_Witness ==
    /\ platform = "ready" /\ notified
    /\ \E i \in 1..Len(entities) : ~HasRecord(coordinator.data, entities[i].user_id)
    /\ \E k \in 1..Len(coordinator.data) :
          \A i \in 1..Len(entities) : entities[i].user_id # coordinator.data[k].id
    /\ \E i \in 1..Len(entities) : \E k \in 1..Len(coordinator.data) :
          /\ coordinator.data[k].id = entities[i].user_id
          /\ coordinator.data[k].name # firstPoll[i].name

\* C5: the entities built from a first poll with pairwise distinct account ids
\* have pairwise distinct unique keys.
C5_UniqueKeysDistinct ==
    (platform = "ready"
       /\ \A i, j \in 1..Len(firstPoll) : i # j => firstPoll[i].id # firstPoll[j].id)
        => \A i, j \in 1..Len(entities) :
              i # j => entities[i].unique_id # entities[j].unique_id

\* C6: an entity's identifier (unique key, object id, display name) stays the
\* one derived from its setup-time record, while its displayed value is that of
\* the record the latest notification read.
C6_IdentifierKeptAcrossRename ==
    platform = "ready"
        => \A i \in 1..Len(entities) :
              /\ i <= Len(firstPoll)
              /\ entities[i].unique_id = HaUserPrefix \o SafeName(firstPoll[i])
              /\ entities[i].object_id = entities[i].unique_id
              /\ entities[i].name = entities[i].unique_id
              /\ \A k \in 1..Len(coordinator.data) :
                    coordinator.data[k].id = entities[i].user_id
                       => entities[i].native_value = Displayed(coordinator.data[k])

\* an account renamed since setup: the value is the new name, the identifier
\* is not the one the new name would give
C6_Witness ==
    /\ platform = "ready" /\ notified
    /\ \E i \in 1..Len(entities) : \E k \in 1..Len(coordinator.data) :
          /\ coordinator.data[k].id = entities[i].user_id
          /\ ~NameMissing(coordinator.data[k].name)
          /\ coordinator.data[k].name # firstPoll[i].name
          /\ entities[i].native_value = coordinator.data[k].name.text
          /\ entities[i].unique_id # HaUserPrefix \o SafeName(coordinator.data[k])

\* C7: when a step of platform setup raises, the exception reaches the host
\* (setup fails) and no entity is registered.
C7_FailedSetupRegistersNothing ==
    /\ platformError # "none" => (platform = "failed" /\ entities = <<>>)
    /\ platform = "failed" => platformError # "none"

\* an entity constructor raised after the coordinator was stored
C7_Witness ==
    /\ platform = "failed"
    /\ platformError = "entity"
    /\ "coordinator" \in hassData[Domain]
    /\ coordinator.hasData /\ Len(coordinator.data) > 1

\* C8: every async_setup call leaves the domain's slot in hass.data (an
\* existing slot untouched, a new one empty), returns True, and calls
\* async_load_platform once, with the domain and an empty payload, exactly
\* when the domain is in the configuration.
C8_SetupPopulatesSlotAndForwards ==
    [][setupCalls' # setupCalls
         => /\ Domain \in DOMAIN hassData'
            /\ \A k \in DOMAIN hassData : k \in DOMAIN hassData' /\ hassData'[k] = hassData[k]
            /\ Domain \notin DOMAIN hassData => hassData'[Domain] = {}
            /\ setupReturn' = "True"
            /\ IF Domain \in lastConfig'
               THEN loadCalls' = Append(loadCalls,
                        [component |-> "sensor", platform |-> Domain, discovered |-> {}])
               ELSE loadCalls' = loadCalls]_vars

\* a call without the domain's block, with the coordinator in the slot
C8_Witness ==
    /\ setupCalls = 2
    /\ Domain \notin lastConfig
    /\ Len(loadCalls) = 1
    /\ "coordinator" \in hassData[Domain]
    /\ setupReturn = "True"

\* C9: an entity built from a record without a name has the identifier
\* "ha_user_" + lower("user_" + id[:8]) with spaces as underscores, and an
\* entity whose record has no name shows "User " + id[:8].
C9_FallbackNameAndIdentifier ==
    platform = "ready"
        => \A i \in 1..Len(entities) :
              /\ NameMissing(firstPoll[i].name)
                    => /\ entities[i].unique_id =
                            <<"h", "a", "_", "u", "s", "e", "r", "_">> \o
                            StrReplace(StrLower(<<"u", "s", "e", "r", "_">> \o
                                SubSeq(firstPoll[i].id, 1, Min(8, Len(firstPoll[i].id)))),
                                " ", "_")
                       /\ entities[i].name = entities[i].unique_id
              /\ \A k \in 1..Len(coordinator.data) :
                    (coordinator.data[k].id = entities[i].user_id
                       /\ NameMissing(coordinator.data[k].name))
                       => entities[i].native_value =
                            <<"U", "s", "e", "r", " ">> \o
                            SubSeq(entities[i].user_id, 1, Min(8, Len(entities[i].user_id)))

\* "deadbeefxyz" with an empty name and "De Adbeef9" with no name
C9_Witness ==
    /\ platform = "ready"
    /\ \E i, j \in 1..Len(entities) :
          /\ entities[i].user_id = IdB
          /\ firstPoll[i].name = Some(<<>>)
          /\ entities[i].native_value =
                <<"U", "s", "e", "r", " ", "d", "e", "a", "d", "b", "e", "e", "f">>
          /\ entities[i].unique_id =
                <<"h", "a", "_", "u", "s", "e", "r", "_", "u", "s", "e", "r", "_",
                  "d", "e", "a", "d", "b", "e", "e", "f">>
          /\ entities[j].user_id = IdC
          /\ firstPoll[j].name = None
          /\ entities[j].native_value =
                <<"U", "s", "e", "r", " ", "D", "e", " ", "A", "d", "b", "e", "e">>
          /\ entities[j].unique_id =
                <<"h", "a", "_", "u", "s", "e", "r", "_", "u", "s", "e", "r", "_",
                  "d", "e", "_", "a", "d", "b", "e", "e">>

\* C10: the cached record list is always the whole mapping of the accounts of
\* one successful fetch, the latest: one record per account, in order.
C10_SnapshotIsOneCompleteFetch ==
    coordinator.hasData
        => /\ Len(coordinator.data) = Len(lastFetch)
           /\ \A k \in 1..Len(lastFetch) :
                 LET r == coordinator.data[k]
                     u == lastFetch[k]
                 IN /\ r.id = u.id
                    /\ r.name = u.name
                    /\ r.is_owner = u.is_owner
                    /\ r.is_active = u.is_active
                    /\ r.system_generated = u.system_generated
                    /\ Len(r.group_ids) = Len(u.groups)
                    /\ \A g \in 1..Len(u.groups) : r.group_ids[g] = u.groups[g].id
                    /\ r.local_only = (u.has_local_only /\ u.local_only)
                    /\ r.has_credentials = (u.has_credentials /\ u.credentials # <<>>)

\* the handlers ran while a fetch was in flight, on a snapshot of several
\* records that replaced the first poll's
C10_Witness ==
    /\ pc = "fetching"
    /\ notified
    /\ coordinator.hasData
    /\ Len(coordinator.data) > 1
    /\ coordinator.data # firstPoll

====
